---- MODULE Spec2Model ----
(***************************************************************************)
(* A model of paneless' Win32 window host (src/window/windows.rs and       *)
(* src/utils/strings.rs): class registration, window creation, the window  *)
(* procedure, the message loop, the user-data accessors and the paint      *)
(* helpers.  The program is single threaded; the operating system is       *)
(* modelled by the operators named after its entry points, and every       *)
(* answer the system is free to give is an input drawn by the action.      *)
(*                                                                         *)
(* Handlers are operators from a world record (the program and system      *)
(* state) to a record [w |-> world, ret |-> value]; an action applies one  *)
(* whole handler, nested callbacks included, and stores the new world.     *)
(***************************************************************************)
EXTENDS Integers, Sequences, FiniteSets, TLC

VARIABLES
    pc,          \* "main" | "loop" | "exited" | "panicked" | "crashed"
    exitStatus,  \* [set |-> BOOLEAN, code |-> Int]: status given to process::exit
    classReg,    \* the class "window" is registered in this process
    lastError,   \* the thread's last-error value (GetLastError/SetLastError)
    heap,        \* payload address -> "unalloc" | "live" | "freed"
    frees,       \* payload address -> number of times Box::from_raw dropped it
    wins,        \* window handle -> window record kept by the system
    queue,       \* posted messages of the thread, oldest first
    quitFlag,    \* PostQuitMessage has been called and WM_QUIT is pending
    quitCode,    \* the wParam the pending WM_QUIT will carry
    titleBuf,    \* the Vec<u16> made in new: [units, live]
    cs,          \* the CREATESTRUCTW of the creation in progress
    calls,       \* the system calls and callbacks of the last action, in order
    newCalls,    \* number of calls of WindowsWindow::new so far
    lastNew,     \* outcome of the last call of new
    envLeft,     \* messages the environment may still inject
    ud,          \* the direct use of a user-data accessor made by the last action
    wstr         \* the last direct use of str_to_wstr: [s, out, done]

vars == <<pc, exitStatus, classReg, lastError, heap, frees, wins, queue, quitFlag,
          quitCode, titleBuf, cs, calls, newCalls, lastNew, envLeft, ud, wstr>>

-----------------------------------------------------------------------------
(* Bounds of the model *)

MaxPtr == 2      \* payload addresses the allocator can hand out
MaxWin == 2      \* window handles the system can hand out
MaxQueue == 1    \* posted messages held at once
MaxNew == 2      \* calls of WindowsWindow::new
MaxEnv == 2      \* messages injected by the environment in one run
MaxLen == 3      \* characters of a text given to str_to_wstr directly

Ptrs == 1..MaxPtr
Hwnds == 1..MaxWin
NullPtr == 0
NullHwnd == 0
BadHwnd == MaxWin + 1   \* a handle value that names no window

-----------------------------------------------------------------------------
(* Program and system constants *)

ERROR_INVALID_WINDOW_HANDLE == 1400
ERROR_CLASS_ALREADY_EXISTS == 1410
ERROR_NOT_ENOUGH_MEMORY == 8
ERROR_INVALID_PARAMETER == 87
CW_USEDEFAULT == -2147483647 - 1
COLOR_WINDOW == 5
HTCLIENT == 1
Limb == 65536

WM_DESTROY == 2
WM_PAINT == 15
WM_CLOSE == 16
WM_QUIT == 18
WM_NCCREATE == 129
WM_NCHITTEST == 132
WM_KEYDOWN == 256
WM_CHAR == 258

Ok(v) == [ok |-> TRUE, v |-> v]
Err(e) == [ok |-> FALSE, v |-> e]
None == [some |-> FALSE, v |-> 0]
Some(v) == [some |-> TRUE, v |-> v]
unwrap_or(o, d) == IF o.some THEN o.v ELSE d

(* WPARAM is a 64-bit word, kept as four 16-bit limbs, least significant first. *)
IntToWParam(n) == <<n % Limb, (n \div Limb) % Limb, IF n < 0 THEN Limb - 1 ELSE 0, IF n < 0 THEN Limb - 1 ELSE 0>>

(* `x as i32` of a usize: the low 32 bits, read as two's complement. *)
AsI32(wp) == (IF wp[2] >= Limb \div 2 THEN wp[2] - Limb ELSE wp[2]) * Limb + wp[1]

NoWin == [st |-> "none", userdata |-> NullPtr, title |-> <<>>, width |-> 0, height |-> 0, visible |-> FALSE, dirty |-> FALSE, dc |-> 0]

Msg(h, m, wp, lp) == [hwnd |-> h, message |-> m, wParam |-> wp, lParam |-> lp]

-----------------------------------------------------------------------------
(* The world record *)

World == [pc |-> pc, exitStatus |-> exitStatus, classReg |-> classReg, lastError |-> lastError, heap |-> heap, frees |-> frees, wins |-> wins, queue |-> queue, quitFlag |-> quitFlag, quitCode |-> quitCode, titleBuf |-> titleBuf, cs |-> cs, calls |-> <<>>]

Store(w) ==
    /\ pc' = w.pc
    /\ exitStatus' = w.exitStatus
    /\ classReg' = w.classReg
    /\ lastError' = w.lastError
    /\ heap' = w.heap
    /\ frees' = w.frees
    /\ wins' = w.wins
    /\ queue' = w.queue
    /\ quitFlag' = w.quitFlag
    /\ quitCode' = w.quitCode
    /\ titleBuf' = w.titleBuf
    /\ cs' = w.cs
    /\ calls' = w.calls

Log(w, op, a, b) == [w EXCEPT !.calls = Append(@, <<op, a, b>>)]

Dead(w) == w.pc \in {"exited", "panicked", "crashed"}

(* A Rust panic: unwinding out of new or window_loop, or aborting inside the callback. *)
Panic(w, line) == [Log(w, "panic", line, 0) EXCEPT !.pc = "panicked"]

ValidHwnd(w, h) == h \in Hwnds /\ w.wins[h].st \in {"creating", "alive", "destroying"}

-----------------------------------------------------------------------------
(* src/utils/strings.rs *)

RECURSIVE encode_utf16(_)
encode_utf16(s) ==
    IF s = <<>> THEN <<>>
    ELSE LET c == Head(s)
             u == IF c < 65536 THEN <<c>>
                  ELSE <<55296 + ((c - 65536) \div 1024), 56320 + ((c - 65536) % 1024)>>
         IN u \o encode_utf16(Tail(s))

str_to_wstr(s) == Append(encode_utf16(s), 0)

(* What a reader of a NUL-terminated wide string sees: the units before the first zero. *)
UntilNul(u) ==
    LET z == {i \in 1..Len(u) : u[i] = 0}
    IN IF z = {} THEN u ELSE SubSeq(u, 1, (CHOOSE i \in z : \A j \in z : i <= j) - 1)

(* The system reads the title through the pointer taken in new.  A read of a buffer
   that was already dropped may see the old units or whatever took their place. *)
ReadTitle(w, site, os) ==
    [w |-> Log(w, "readTitle", site, IF w.titleBuf.live THEN 1 ELSE 0), ret |-> IF w.titleBuf.live THEN UntilNul(w.titleBuf.units) ELSE os.stale]

-----------------------------------------------------------------------------
(* The system's last-error value and per-window long pointer *)

(* Only({e : x \in {v}}) is e with x standing for the value of v. *)
Only(S) == CHOOSE x \in S : TRUE

SetLastError(w, e) == Log([w EXCEPT !.lastError = e], "SetLastError", e, 0)

(* A system call that fails and leaves its error code behind. *)
OsFail(w, e) == [w EXCEPT !.lastError = e]

GetLastError(w) == w.lastError

SetWindowLongPtrW(w, hwnd, v) ==
    IF ValidHwnd(w, hwnd)
    THEN [w |-> Log([w EXCEPT !.wins[hwnd].userdata = v], "SetWindowLongPtrW", hwnd, v), ret |-> w.wins[hwnd].userdata]
    ELSE [w |-> Log(OsFail(w, ERROR_INVALID_WINDOW_HANDLE), "SetWindowLongPtrW", hwnd, v), ret |-> 0]

GetWindowLongPtrW(w, hwnd) ==
    IF ValidHwnd(w, hwnd)
    THEN [w |-> Log(w, "GetWindowLongPtrW", hwnd, 0), ret |-> w.wins[hwnd].userdata]
    ELSE [w |-> Log(OsFail(w, ERROR_INVALID_WINDOW_HANDLE), "GetWindowLongPtrW", hwnd, 0), ret |-> 0]

(* A transcription of set_window_userdata that forgets to clear the last error. *)
set_window_userdata_noclear(w, hwnd, ptr) ==
    Only({ IF out.ret = 0 /\ GetLastError(out.w) # 0 THEN [w |-> out.w, ret |-> Err(GetLastError(out.w))]
           ELSE [w |-> out.w, ret |-> Ok(out.ret)]
         : out \in {SetWindowLongPtrW(w, hwnd, ptr)} })

set_window_userdata(w, hwnd, ptr) ==
    Only({ IF out.ret = 0
           THEN (IF GetLastError(out.w) # 0 THEN [w |-> out.w, ret |-> Err(GetLastError(out.w))]
                 ELSE [w |-> out.w, ret |-> Ok(out.ret)])
           ELSE [w |-> out.w, ret |-> Ok(out.ret)]
         : out \in {SetWindowLongPtrW(SetLastError(w, 0), hwnd, ptr)} })

(* A transcription of get_window_userdata that reports every zero as a failure. *)
get_window_userdata_zero_fails(w, hwnd) ==
    Only({ IF out.ret = 0 THEN [w |-> out.w, ret |-> Err(GetLastError(out.w))]
           ELSE [w |-> out.w, ret |-> Ok(out.ret)]
         : out \in {GetWindowLongPtrW(SetLastError(w, 0), hwnd)} })

get_window_userdata(w, hwnd) ==
    Only({ IF out.ret = 0
           THEN (IF GetLastError(out.w) # 0 THEN [w |-> out.w, ret |-> Err(GetLastError(out.w))]
                 ELSE [w |-> out.w, ret |-> Ok(out.ret)])
           ELSE [w |-> out.w, ret |-> Ok(out.ret)]
         : out \in {GetWindowLongPtrW(SetLastError(w, 0), hwnd)} })

-----------------------------------------------------------------------------
(* Quit request and paint helpers *)

PostQuitMessage(w, exit_code) ==
    Log([w EXCEPT !.quitFlag = TRUE, !.quitCode = IntToWParam(exit_code)], "PostQuitMessage", exit_code, 0)

post_quit_message(w, exit_code) == PostQuitMessage(w, exit_code)

(* BeginPaint: a null context for a bad handle or when the system has none to give;
   otherwise the update region is validated and a paint context is open. *)
BeginPaint(w, hwnd, os) ==
    IF ~ValidHwnd(w, hwnd) THEN [w |-> Log(OsFail(w, ERROR_INVALID_WINDOW_HANDLE), "BeginPaint", hwnd, 0), ret |-> FALSE]
    ELSE IF ~os.dcOk THEN [w |-> Log(w, "BeginPaint", hwnd, 0), ret |-> FALSE]
    ELSE [w |-> Log([w EXCEPT !.wins[hwnd].dirty = FALSE, !.wins[hwnd].dc = @ + 1], "BeginPaint", hwnd, 1), ret |-> TRUE]

(* EndPaint: "the return value is always nonzero". *)
EndPaint(w, hwnd) ==
    [w |-> Log(IF ValidHwnd(w, hwnd) /\ w.wins[hwnd].dc > 0 THEN [w EXCEPT !.wins[hwnd].dc = @ - 1] ELSE w, "EndPaint", hwnd, 0), ret |-> TRUE]

FillRect(w, hdc, brush, os) == [w |-> Log(w, "FillRect", brush, IF os.fillOk THEN 1 ELSE 0), ret |-> IF os.fillOk THEN 1 ELSE 0]

begin_paint(w, hwnd, os) ==
    Only({ IF ~hdc.ret THEN [w |-> hdc.w, ret |-> Err(GetLastError(hdc.w))]
           ELSE [w |-> hdc.w, ret |-> Ok(hwnd)]
         : hdc \in {BeginPaint(w, hwnd, os)} })

fill_rect_with_sys_color(w, hdc, color, os) ==
    Only({ IF r.ret # 0 THEN [w |-> r.w, ret |-> Ok(0)] ELSE [w |-> r.w, ret |-> Err(0)]
         : r \in {FillRect(w, hdc, color + 1, os)} })

end_paint(w, hwnd) ==
    Only({ IF r.ret THEN r.w ELSE Panic(r.w, 271) : r \in {EndPaint(w, hwnd)} })

(* The painting closures: "fill" is the one window_procedure passes (lines 148-151:
   the fill's result is dropped and the closure returns Ok); "ok" and "err" are
   closures of other callers that touch nothing and return Ok or Err. *)
Closure(w, f, hdc, os) ==
    IF f = "fill"
    THEN [w |-> fill_rect_with_sys_color(Log(w, "closure", hdc, 0), hdc, COLOR_WINDOW, os).w, ret |-> Ok(0)]
    ELSE [w |-> Log(w, "closure", hdc, 0), ret |-> IF f = "ok" THEN Ok(0) ELSE Err(ERROR_INVALID_PARAMETER)]

(* A transcription of do_some_painting that uses ? on the closure's result. *)
do_some_painting_early(w, hwnd, f, os) ==
    Only({ IF ~b.ret.ok THEN b
           ELSE Only({ IF ~output.ret.ok THEN output
                       ELSE [w |-> end_paint(output.w, hwnd), ret |-> output.ret]
                     : output \in {Closure(b.w, f, b.ret.v, os)} })
         : b \in {begin_paint(w, hwnd, os)} })

do_some_painting(w, hwnd, f, os) ==
    Only({ IF ~b.ret.ok THEN b
           ELSE Only({ [w |-> end_paint(output.w, hwnd), ret |-> output.ret]
                     : output \in {Closure(b.w, f, b.ret.v, os)} })
         : b \in {begin_paint(w, hwnd, os)} })

-----------------------------------------------------------------------------
(* WindowsWindow::window_procedure, one operator per match arm *)

(* SetWindowTextW copies the string it is given into the window. *)
SetWindowTextW(w, hwnd, os) ==
    IF ~ValidHwnd(w, hwnd) THEN [w |-> Log(OsFail(w, ERROR_INVALID_WINDOW_HANDLE), "SetWindowTextW", hwnd, 0), ret |-> Err(ERROR_INVALID_WINDOW_HANDLE)]
    ELSE IF ~os.textOk THEN [w |-> Log(OsFail(w, ERROR_NOT_ENOUGH_MEMORY), "SetWindowTextW", hwnd, 0), ret |-> Err(ERROR_NOT_ENOUGH_MEMORY)]
    ELSE Only({ [w |-> [t.w EXCEPT !.wins[hwnd].title = t.ret], ret |-> Ok(0)]
              : t \in {ReadTitle(Log(w, "SetWindowTextW", hwnd, 1), 123, os)} })

(* A transcription of the WM_NCCREATE arm that answers 1 whenever it returns. *)
wm_nccreate_always_one(w, hwnd, l_param, os) ==
    IF l_param = NullPtr THEN [w |-> Log(Log(w, "window_procedure", hwnd, WM_NCCREATE), "return", WM_NCCREATE, 1), ret |-> 1]
    ELSE Only({ IF ~t.ret.ok THEN [w |-> Panic(t.w, 123), ret |-> 0]
                ELSE Only({ [w |-> Log(s.w, "return", WM_NCCREATE, 1), ret |-> 1]
                          : s \in {set_window_userdata(t.w, hwnd, t.w.cs.lpCreateParams)} })
              : t \in {SetWindowTextW(Log(w, "window_procedure", hwnd, WM_NCCREATE), hwnd, os)} })

wm_nccreate(w, hwnd, l_param, os) ==
    IF l_param = NullPtr THEN [w |-> Log(Log(w, "window_procedure", hwnd, WM_NCCREATE), "return", WM_NCCREATE, 0), ret |-> 0]
    ELSE Only({ IF ~t.ret.ok THEN [w |-> Panic(t.w, 123), ret |-> 0]
                ELSE Only({ [w |-> Log(s.w, "return", WM_NCCREATE, IF s.ret.ok THEN 1 ELSE 0), ret |-> IF s.ret.ok THEN 1 ELSE 0]
                          : s \in {set_window_userdata(t.w, hwnd, t.w.cs.lpCreateParams)} })
              : t \in {SetWindowTextW(Log(w, "window_procedure", hwnd, WM_NCCREATE), hwnd, os)} })

(* Dropping the Box made by Box::from_raw releases the payload.  Releasing an
   address that is not live is undefined: the allocator may take it silently or
   stop the process. *)
BoxDrop(w, ptr, os) ==
    IF w.heap[ptr] = "live"
    THEN Log([w EXCEPT !.heap[ptr] = "freed", !.frees[ptr] = @ + 1], "free", ptr, 1)
    ELSE IF os.ub = "crash" THEN [Log(w, "free", ptr, 0) EXCEPT !.pc = "crashed"]
    ELSE Log([w EXCEPT !.frees[ptr] = @ + 1], "free", ptr, 0)

(* Lines 133-144: the match on the user-data pointer. *)
wm_destroy_cleanup(g, os) ==
    IF g.ret.ok /\ g.ret.v # NullPtr THEN BoxDrop(g.w, g.ret.v, os)
    ELSE IF g.ret.ok THEN g.w
    ELSE Log(g.w, "println", 139, g.ret.v)

(* A transcription of the WM_DESTROY arm that posts the quit request first. *)
wm_destroy_quit_first(w, hwnd, os) ==
    Only({ IF Dead(w1) THEN [w |-> w1, ret |-> 0]
           ELSE [w |-> Log(w1, "return", WM_DESTROY, 0), ret |-> 0]
         : w1 \in {wm_destroy_cleanup(get_window_userdata(post_quit_message(Log(w, "window_procedure", hwnd, WM_DESTROY), 0), hwnd), os)} })

wm_destroy(w, hwnd, os) ==
    Only({ IF Dead(w1) THEN [w |-> w1, ret |-> 0]
           ELSE [w |-> Log(post_quit_message(w1, 0), "return", WM_DESTROY, 0), ret |-> 0]
         : w1 \in {wm_destroy_cleanup(get_window_userdata(Log(w, "window_procedure", hwnd, WM_DESTROY), hwnd), os)} })

(* DestroyWindow: the system sends WM_DESTROY to the window's procedure, then the
   handle stops naming a window and the messages posted to it are dropped. *)
DestroyWindow(w, hwnd, os) ==
    IF ~ValidHwnd(w, hwnd) \/ w.wins[hwnd].st # "alive"
    THEN [w |-> Log(OsFail(w, ERROR_INVALID_WINDOW_HANDLE), "DestroyWindow", hwnd, 0), ret |-> Err(ERROR_INVALID_WINDOW_HANDLE)]
    ELSE Only({ IF Dead(d.w) THEN [w |-> d.w, ret |-> Ok(0)]
                ELSE [w |-> [d.w EXCEPT !.wins[hwnd].st = "destroyed", !.queue = SelectSeq(@, LAMBDA m : m.hwnd # hwnd)], ret |-> Ok(0)]
              : d \in {wm_destroy(Log([w EXCEPT !.wins[hwnd].st = "destroying", !.wins[hwnd].visible = FALSE, !.wins[hwnd].dirty = FALSE], "DestroyWindow", hwnd, 1), hwnd, os)} })

wm_close(w, hwnd, os) ==
    Only({ IF Dead(d.w) THEN [w |-> d.w, ret |-> 0]
           ELSE [w |-> Log(d.w, "return", WM_CLOSE, 0), ret |-> 0]
         : d \in {DestroyWindow(Log(w, "window_procedure", hwnd, WM_CLOSE), hwnd, os)} })

(* The WM_PAINT arm with the painting result unwrapped instead of logged. *)
wm_paint_unwrap(w, hwnd, os) ==
    Only({ IF Dead(p.w) THEN [w |-> p.w, ret |-> 0]
           ELSE IF ~p.ret.ok THEN [w |-> Panic(p.w, 152), ret |-> 0]
           ELSE [w |-> Log(p.w, "return", WM_PAINT, 0), ret |-> 0]
         : p \in {do_some_painting(Log(w, "window_procedure", hwnd, WM_PAINT), hwnd, "fill", os)} })

wm_paint(w, hwnd, os) ==
    Only({ IF Dead(p.w) THEN [w |-> p.w, ret |-> 0]
           ELSE IF ~p.ret.ok THEN [w |-> Log(Log(p.w, "println", 152, p.ret.v), "return", WM_PAINT, 0), ret |-> 0]
           ELSE [w |-> Log(p.w, "return", WM_PAINT, 0), ret |-> 0]
         : p \in {do_some_painting(Log(w, "window_procedure", hwnd, WM_PAINT), hwnd, "fill", os)} })

(* DefWindowProcW for the messages the model delivers to the default arm: a hit
   test answers "client area", everything else answers 0. *)
DefWindowProcW(w, hwnd, msg, w_param, l_param) ==
    [w |-> Log(w, "DefWindowProcW", hwnd, msg), ret |-> IF msg = WM_NCHITTEST /\ ValidHwnd(w, hwnd) THEN HTCLIENT ELSE 0]

(* A transcription of the default arm that falls through to LRESULT(0). *)
wm_default_neutral(w, hwnd, msg, w_param, l_param) ==
    Only({ [w |-> Log(d.w, "return", msg, 0), ret |-> 0]
         : d \in {DefWindowProcW(Log(w, "window_procedure", hwnd, msg), hwnd, msg, w_param, l_param)} })

wm_default(w, hwnd, msg, w_param, l_param) ==
    Only({ [w |-> Log(d.w, "return", msg, d.ret), ret |-> d.ret]
         : d \in {DefWindowProcW(Log(w, "window_procedure", hwnd, msg), hwnd, msg, w_param, l_param)} })

window_procedure(w, hwnd, msg, w_param, l_param, os) ==
    CASE msg = WM_NCCREATE -> wm_nccreate(w, hwnd, l_param, os)
      [] msg = WM_CLOSE -> wm_close(w, hwnd, os)
      [] msg = WM_DESTROY -> wm_destroy(w, hwnd, os)
      [] msg = WM_PAINT -> wm_paint(w, hwnd, os)
      [] OTHER -> wm_default(w, hwnd, msg, w_param, l_param)

-----------------------------------------------------------------------------
(* WindowsWindow::new, register_class, init_instance *)

(* The binding of LoadCursorW answers Err for a null handle and Ok(handle) otherwise. *)
LoadCursorW(w, os) ==
    IF os.cursorOk THEN [w |-> Log(w, "LoadCursorW", 1, 0), ret |-> Ok(1)]
    ELSE [w |-> Log(OsFail(w, ERROR_NOT_ENOUGH_MEMORY), "LoadCursorW", 0, 0), ret |-> Err(ERROR_NOT_ENOUGH_MEMORY)]

load_default_cursor(w, os) ==
    Only({ IF ~r.ret.ok THEN [w |-> Panic(r.w, 186), ret |-> Err(0)]
           ELSE IF r.ret.v = 0 THEN [w |-> Log(r.w, "bail", 188, 0), ret |-> Err(0)]
           ELSE [w |-> r.w, ret |-> Ok(r.ret.v)]
         : r \in {LoadCursorW(w, os)} })

(* RegisterClassW: atom 0 when the name is already registered in the process or the
   system cannot register it, a nonzero atom otherwise. *)
RegisterClassW(w, os) ==
    IF w.classReg THEN [w |-> Log(OsFail(w, ERROR_CLASS_ALREADY_EXISTS), "RegisterClassW", 0, 0), ret |-> 0]
    ELSE IF ~os.registerOk THEN [w |-> Log(OsFail(w, ERROR_NOT_ENOUGH_MEMORY), "RegisterClassW", 0, 0), ret |-> 0]
    ELSE [w |-> Log([w EXCEPT !.classReg = TRUE], "RegisterClassW", 1, 0), ret |-> 1]

(* A transcription of register_class that does not test the atom. *)
register_class_unchecked(w, os) ==
    Only({ IF Dead(c.w) \/ ~c.ret.ok THEN c
           ELSE [w |-> RegisterClassW(c.w, os).w, ret |-> Ok(0)]
         : c \in {load_default_cursor(w, os)} })

register_class(w, os) ==
    Only({ IF Dead(c.w) \/ ~c.ret.ok THEN c
           ELSE Only({ IF atom.ret = 0 THEN [w |-> Log(atom.w, "bail", 60, GetLastError(atom.w)), ret |-> Err(GetLastError(atom.w))]
                       ELSE [w |-> atom.w, ret |-> Ok(0)]
                     : atom \in {RegisterClassW(c.w, os)} })
         : c \in {load_default_cursor(w, os)} })

FreeHwnds(w) == {h \in Hwnds : w.wins[h].st = "none"}
FreePtrs(w) == {p \in Ptrs : w.heap[p] = "unalloc"}
Least(S) == CHOOSE x \in S : \A y \in S : x <= y

(* The window made by CreateWindowExW, before any message is sent to it. *)
NewWindow(w, hwnd, width, height, lparam) ==
    [w EXCEPT !.wins[hwnd] = [NoWin EXCEPT !.st = "creating", !.width = width, !.height = height], !.cs = [lpszName |-> 1, lpCreateParams |-> lparam]]

(* CreateWindowExW: reads the window name, makes the window and sends it WM_NCCREATE
   with the creation record; a reply of 0 aborts the creation. *)
CreateWindowExW(w, width, height, lparam, os) ==
    IF ~w.classReg \/ FreeHwnds(w) = {} \/ ~os.createOk
    THEN [w |-> OsFail(Log(w, "CreateWindowExW", width, height), ERROR_NOT_ENOUGH_MEMORY), ret |-> Err(ERROR_NOT_ENOUGH_MEMORY)]
    ELSE Only({ IF Dead(n.w) THEN [w |-> n.w, ret |-> Err(0)]
                ELSE IF n.ret = 0 THEN [w |-> [n.w EXCEPT !.wins[Least(FreeHwnds(w))].st = "destroyed"], ret |-> Err(GetLastError(n.w))]
                ELSE [w |-> [n.w EXCEPT !.wins[Least(FreeHwnds(w))].st = "alive"], ret |-> Ok(Least(FreeHwnds(w)))]
              : n \in {wm_nccreate(NewWindow(ReadTitle(Log(w, "CreateWindowExW", width, height), 82, os).w, Least(FreeHwnds(w)), width, height, lparam), Least(FreeHwnds(w)), 1, os)} })

(* ShowWindow answers whether the window was visible before. *)
ShowWindow(w, hwnd) ==
    [w |-> Log([w EXCEPT !.wins[hwnd].visible = TRUE, !.wins[hwnd].dirty = TRUE], "ShowWindow", hwnd, 0), ret |-> IF w.wins[hwnd].visible THEN 1 ELSE 0]

(* UpdateWindow sends WM_PAINT straight to the procedure when the update region is
   not empty. *)
UpdateWindow(w, hwnd, os) ==
    IF ~ValidHwnd(w, hwnd) THEN [w |-> OsFail(Log(w, "UpdateWindow", hwnd, 0), ERROR_INVALID_WINDOW_HANDLE), ret |-> FALSE]
    ELSE IF w.wins[hwnd].dirty THEN [w |-> wm_paint(Log(w, "UpdateWindow", hwnd, 0), hwnd, os).w, ret |-> TRUE]
    ELSE [w |-> Log(w, "UpdateWindow", hwnd, 0), ret |-> TRUE]

(* Lines 105-107: the redraw request and its unwrap. *)
init_instance_update(w, hwnd, os) ==
    Only({ IF Dead(u.w) THEN u.w
           ELSE IF ~u.ret THEN Panic(u.w, 106)
           ELSE u.w
         : u \in {UpdateWindow(w, hwnd, os)} })

(* A transcription of lines 99-107 that asks for the redraw before the show. *)
init_instance_update_first(w, hwnd, os) ==
    Only({ IF Dead(u) THEN u
           ELSE Only({ IF code.ret # 0 THEN Panic(code.w, 103) ELSE code.w : code \in {ShowWindow(u, hwnd)} })
         : u \in {init_instance_update(w, hwnd, os)} })

(* Lines 99-107: the show request, its check, and the redraw request. *)
init_instance_show(w, hwnd, os) ==
    Only({ IF code.ret # 0 THEN Panic(code.w, 103)
           ELSE init_instance_update(code.w, hwnd, os)
         : code \in {ShowWindow(w, hwnd)} })

(* A transcription of init_instance that gives the height the width's default. *)
init_instance_symmetric(w, width, height, os) ==
    IF FreePtrs(w) = {} THEN [Log(w, "alloc_failed", 78, 0) EXCEPT !.pc = "crashed"]
    ELSE Only({ IF Dead(hwnd.w) THEN hwnd.w
                ELSE IF ~hwnd.ret.ok THEN Panic(hwnd.w, 96)
                ELSE init_instance_show(hwnd.w, hwnd.ret.v, os)
              : hwnd \in {CreateWindowExW(Log([w EXCEPT !.heap[Least(FreePtrs(w))] = "live"], "Box::new", Least(FreePtrs(w)), 0), unwrap_or(width, CW_USEDEFAULT), unwrap_or(height, CW_USEDEFAULT), Least(FreePtrs(w)), os)} })

init_instance(w, width, height, os) ==
    IF FreePtrs(w) = {} THEN [Log(w, "alloc_failed", 78, 0) EXCEPT !.pc = "crashed"]
    ELSE Only({ IF Dead(hwnd.w) THEN hwnd.w
                ELSE IF ~hwnd.ret.ok THEN Panic(hwnd.w, 96)
                ELSE init_instance_show(hwnd.w, hwnd.ret.v, os)
              : hwnd \in {CreateWindowExW(Log([w EXCEPT !.heap[Least(FreePtrs(w))] = "live"], "Box::new", Least(FreePtrs(w)), 0), unwrap_or(width, CW_USEDEFAULT), unwrap_or(height, 0), Least(FreePtrs(w)), os)} })

(* A transcription of new that drops the ? after register_class. *)
new_unchecked(w, title, width, height, os) ==
    Only({ IF Dead(r.w) THEN r
           ELSE [w |-> init_instance(r.w, width, height, os), ret |-> Ok(0)]
         : r \in {register_class(Log([w EXCEPT !.titleBuf = [units |-> str_to_wstr(title), live |-> FALSE]], "new", 0, 0), os)} })

(* new: the title buffer is a temporary of the statement at line 31 and is dropped
   at its end; window_title keeps the address. *)
new(w, title, width, height, os) ==
    Only({ IF Dead(r.w) \/ ~r.ret.ok THEN r
           ELSE [w |-> init_instance(r.w, width, height, os), ret |-> Ok(0)]
         : r \in {register_class(Log([w EXCEPT !.titleBuf = [units |-> str_to_wstr(title), live |-> FALSE]], "new", 0, 0), os)} })

-----------------------------------------------------------------------------
(* WindowsWindow::window_loop and the message helpers *)

Paintable(w) == {h \in Hwnds : ValidHwnd(w, h) /\ w.wins[h].dirty /\ w.wins[h].visible}

Retrievable(w) == w.queue # <<>> \/ w.quitFlag \/ Paintable(w) # {}

(* GetMessageW: -1 on failure; otherwise the oldest posted message, else the pending
   quit, else a paint request for a window whose update region is not empty. *)
GetMessageW(w, os) ==
    IF ~os.gmOk THEN [w |-> Log(OsFail(w, ERROR_INVALID_WINDOW_HANDLE), "GetMessageW", 0, 0), out |-> -1, msg |-> Msg(NullHwnd, 0, IntToWParam(0), 0)]
    ELSE IF w.queue # <<>> THEN [w |-> Log([w EXCEPT !.queue = Tail(@)], "GetMessageW", Head(w.queue).hwnd, Head(w.queue).message), out |-> IF Head(w.queue).message = WM_QUIT THEN 0 ELSE 1, msg |-> Head(w.queue)]
    ELSE IF w.quitFlag THEN [w |-> Log([w EXCEPT !.quitFlag = FALSE], "GetMessageW", NullHwnd, WM_QUIT), out |-> 0, msg |-> Msg(NullHwnd, WM_QUIT, w.quitCode, 0)]
    ELSE [w |-> Log(w, "GetMessageW", Least(Paintable(w)), WM_PAINT), out |-> 1, msg |-> Msg(Least(Paintable(w)), WM_PAINT, IntToWParam(0), 0)]

get_next_message(w, os) ==
    Only({ IF output.out >= 0 THEN [w |-> output.w, ok |-> TRUE, msg |-> output.msg]
           ELSE [w |-> output.w, ok |-> FALSE, msg |-> output.msg]
         : output \in {GetMessageW(w, os)} })

(* TranslateMessage posts a character message for a key press and answers whether
   it did. *)
TranslateMessage(w, msg) ==
    IF msg.message = WM_KEYDOWN
    THEN [w |-> Log([w EXCEPT !.queue = Append(@, Msg(msg.hwnd, WM_CHAR, msg.wParam, 0))], "TranslateMessage", msg.hwnd, msg.message), ret |-> TRUE]
    ELSE [w |-> Log(w, "TranslateMessage", msg.hwnd, msg.message), ret |-> FALSE]

translte_message(w, msg) ==
    Only({ IF res.ret THEN [w |-> res.w, ret |-> Ok(1)] ELSE [w |-> res.w, ret |-> Err(GetLastError(res.w))]
         : res \in {TranslateMessage(w, msg)} })

(* DispatchMessageW calls the procedure of the window the message names, if any. *)
DispatchMessageW(w, msg, os) ==
    IF ValidHwnd(w, msg.hwnd) THEN window_procedure(Log(w, "DispatchMessageW", msg.hwnd, msg.message), msg.hwnd, msg.message, msg.wParam, msg.lParam, os).w
    ELSE Log(w, "DispatchMessageW", msg.hwnd, msg.message)

exit(w, code) == [Log(w, "exit", code, 0) EXCEPT !.pc = "exited", !.exitStatus = [set |-> TRUE, code |-> code]]

(* One turn of the loop of window_loop that never looks for WM_QUIT's code. *)
window_loop_zero(w, os) ==
    Only({ IF ~g.ok THEN Panic(g.w, 171)
           ELSE IF g.msg.message = WM_QUIT THEN exit(g.w, 0)
           ELSE DispatchMessageW(translte_message(g.w, g.msg).w, g.msg, os)
         : g \in {get_next_message(w, os)} })

(* One turn of the loop of window_loop that dispatches only what was translated. *)
window_loop_translated_only(w, os) ==
    Only({ IF ~g.ok THEN Panic(g.w, 171)
           ELSE IF g.msg.message = WM_QUIT THEN exit(g.w, AsI32(g.msg.wParam))
           ELSE Only({ IF t.ret.ok THEN DispatchMessageW(t.w, g.msg, os) ELSE t.w
                     : t \in {translte_message(g.w, g.msg)} })
         : g \in {get_next_message(w, os)} })

(* One turn of the loop of window_loop. *)
window_loop(w, os) ==
    Only({ IF ~g.ok THEN Panic(g.w, 171)
           ELSE IF g.msg.message = WM_QUIT THEN exit(g.w, AsI32(g.msg.wParam))
           ELSE DispatchMessageW(translte_message(g.w, g.msg).w, g.msg, os)
         : g \in {get_next_message(w, os)} })

-----------------------------------------------------------------------------
(* Inputs and answers of the system drawn by the actions *)

Title1 == <<72, 105>>
Title2 == <<128512>>
NewInputs == {<<Title1, Some(800), None>>, <<Title2, None, Some(600)>>}
Garbage == <<65533>>
QuitParams == {IntToWParam(42), <<65535, 65535, 1, 0>>}

OsFine == [cursorOk |-> TRUE, registerOk |-> TRUE, createOk |-> TRUE, textOk |-> TRUE, stale |-> Garbage, ub |-> "silent", dcOk |-> TRUE, fillOk |-> TRUE, gmOk |-> TRUE]

(* The answers are drawn only where the call that asks for them is reached. *)
OsNew(title) == {o \in [cursorOk : BOOLEAN, registerOk : BOOLEAN, createOk : BOOLEAN, textOk : BOOLEAN, stale : {UntilNul(str_to_wstr(title)), Garbage}, ub : {"silent"}, dcOk : BOOLEAN, fillOk : BOOLEAN, gmOk : {TRUE}] :
                    /\ ~o.cursorOk => o.registerOk
                    /\ ~(o.cursorOk /\ o.registerOk) => o.createOk
                    /\ ~(o.cursorOk /\ o.registerOk /\ o.createOk) => o.textOk /\ o.stale = Garbage
                    /\ ~(o.cursorOk /\ o.registerOk /\ o.createOk /\ o.textOk) => o.dcOk
                    /\ ~(o.cursorOk /\ o.registerOk /\ o.createOk /\ o.textOk /\ o.dcOk) => o.fillOk}

OsProc(k) ==
    CASE k = WM_PAINT -> {o \in {[OsFine EXCEPT !.dcOk = f, !.fillOk = g] : f \in BOOLEAN, g \in BOOLEAN} : o.dcOk \/ o.fillOk}
      [] k \in {WM_CLOSE, WM_DESTROY} -> {[OsFine EXCEPT !.ub = u] : u \in {"silent", "crash"}}
      [] OTHER -> {OsFine}

OsPaint == {[OsFine EXCEPT !.dcOk = f] : f \in BOOLEAN}

Running == pc \in {"main", "loop"}
Alive == {h \in Hwnds : wins[h].st = "alive"}

-----------------------------------------------------------------------------
(* Initial state and actions *)

Init ==
    /\ pc = "main"
    /\ exitStatus = [set |-> FALSE, code |-> 0]
    /\ classReg = FALSE
    /\ lastError = 0
    /\ heap = [p \in Ptrs |-> "unalloc"]
    /\ frees = [p \in Ptrs |-> 0]
    /\ wins = [h \in Hwnds |-> NoWin]
    /\ queue = <<>>
    /\ quitFlag = FALSE
    /\ quitCode = IntToWParam(0)
    /\ titleBuf = [units |-> <<>>, live |-> FALSE]
    /\ cs = [lpszName |-> 0, lpCreateParams |-> NullPtr]
    /\ calls = <<>>
    /\ newCalls = 0
    /\ lastNew = [res |-> "none", code |-> 0, classRegBefore |-> FALSE, width |-> None, height |-> None]
    /\ envLeft = MaxEnv
    /\ ud = [op |-> "none", hwnd |-> NullHwnd, arg |-> 0, valid |-> FALSE, prev |-> 0, stale |-> 0, res |-> Ok(0), lastSet |-> [h \in Hwnds \cup {BadHwnd} |-> -1]]
    /\ wstr = [s |-> <<>>, out |-> <<>>, done |-> FALSE]

(* The program calls WindowsWindow::new. *)
New ==
    /\ pc = "main"
    /\ newCalls < MaxNew
    /\ \E in \in NewInputs : \E os \in OsNew(in[1]) : \E r \in {new(World, in[1], in[2], in[3], os)} :
            /\ Store(r.w)
            /\ lastNew' = [res |-> IF Dead(r.w) THEN "panic" ELSE IF r.ret.ok THEN "Ok" ELSE "Err", code |-> r.ret.v, classRegBefore |-> classReg, width |-> in[2], height |-> in[3]]
    /\ newCalls' = newCalls + 1
    /\ ud' = [ud EXCEPT !.op = "none"]
    /\ UNCHANGED <<envLeft, wstr>>

(* The program calls window_loop on a window it made. *)
EnterLoop ==
    /\ pc = "main"
    /\ \E h \in Hwnds : wins[h].st # "none"
    /\ pc' = "loop"
    /\ calls' = <<>>
    /\ UNCHANGED <<exitStatus, classReg, lastError, heap, frees, wins, queue, quitFlag, quitCode, titleBuf, cs, newCalls, lastNew, envLeft, ud, wstr>>

(* A turn of window_loop in which GetMessageW fails. *)
LoopFail ==
    /\ pc = "loop"
    /\ Store(window_loop(World, [OsFine EXCEPT !.gmOk = FALSE]))
    /\ UNCHANGED <<newCalls, lastNew, envLeft, ud, wstr>>

(* A turn of window_loop in which GetMessageW returns a message: the loop exits, or
   translates and dispatches.  GetMessageW blocks while nothing can be retrieved. *)
LoopTurn ==
    /\ pc = "loop"
    /\ Retrievable(World)
    /\ \E os \in OsProc(GetMessageW(World, OsFine).msg.message) : Store(window_loop(World, os))
    /\ UNCHANGED <<newCalls, lastNew, envLeft, ud, wstr>>

(* One turn of window_loop: retrieve, then exit or translate and dispatch. *)
LoopIter == LoopFail \/ LoopTurn

(* Another party posts a message for a window to the thread's queue. *)
PostWindowMsg ==
    /\ Running
    /\ envLeft > 0
    /\ Len(queue) < MaxQueue
    /\ \E m \in {Msg(h, k, IntToWParam(0), 0) : h \in Alive, k \in {WM_CLOSE, WM_DESTROY, WM_KEYDOWN}} :
         queue' = Append(queue, m)
    /\ envLeft' = envLeft - 1
    /\ calls' = <<>>
    /\ UNCHANGED <<pc, exitStatus, classReg, lastError, heap, frees, wins, quitFlag, quitCode, titleBuf, cs, newCalls, lastNew, ud, wstr>>

(* Another party posts a quit message of its own to the thread's queue. *)
PostQuitMsg ==
    /\ Running
    /\ envLeft > 0
    /\ Len(queue) < MaxQueue
    /\ \E m \in {Msg(NullHwnd, WM_QUIT, p, 0) : p \in QuitParams} :
         queue' = Append(queue, m)
    /\ envLeft' = envLeft - 1
    /\ calls' = <<>>
    /\ UNCHANGED <<pc, exitStatus, classReg, lastError, heap, frees, wins, quitFlag, quitCode, titleBuf, cs, newCalls, lastNew, ud, wstr>>

(* Another party posts a message to the thread's queue. *)
PostMsg == PostWindowMsg \/ PostQuitMsg

(* A message is delivered straight to window_procedure (a sent message, or a direct
   call of the public function), for a live window or for a handle that names none. *)
SendMsg ==
    /\ Running
    /\ envLeft > 0
    /\ \E h \in Alive \cup {BadHwnd} : \E k \in {WM_NCCREATE, WM_CLOSE, WM_DESTROY, WM_PAINT, WM_NCHITTEST} : \E os \in OsProc(k) :
         Store(window_procedure(World, h, k, IntToWParam(0), NullPtr, os).w)
    /\ envLeft' = envLeft - 1
    /\ UNCHANGED <<newCalls, lastNew, ud, wstr>>

(* Part of a visible window needs repainting. *)
Invalidate ==
    /\ Running
    /\ \E h \in Alive :
         /\ wins[h].visible /\ ~wins[h].dirty
         /\ wins' = [wins EXCEPT ![h].dirty = TRUE]
    /\ calls' = <<>>
    /\ UNCHANGED <<pc, exitStatus, classReg, lastError, heap, frees, queue, quitFlag, quitCode, titleBuf, cs, newCalls, lastNew, envLeft, ud, wstr>>

(* A caller of the public do_some_painting with a closure of its own. *)
DoSomePainting ==
    /\ Running
    /\ \E h \in Alive \cup {BadHwnd} : \E f \in {"ok", "err"} : \E os \in OsPaint : \E r \in {do_some_painting(World, h, f, os)} :
         Store(Log(r.w, "do_some_painting", IF r.ret.ok THEN 1 ELSE 0, r.ret.v))
    /\ UNCHANGED <<newCalls, lastNew, envLeft, ud, wstr>>

Next == New \/ EnterLoop \/ LoopIter \/ PostMsg \/ SendMsg \/ Invalidate \/ DoSomePainting

Spec == Init /\ [][Next]_vars

(* The program left to itself: GetMessageW does not fail and no other party posts
   a quit message; a turn of the loop that can be taken is taken in the end. *)
NextLive == New \/ EnterLoop \/ LoopTurn \/ PostWindowMsg \/ SendMsg \/ Invalidate \/ DoSomePainting

SpecLive == Init /\ [][NextLive]_vars /\ WF_vars(LoopTurn)

-----------------------------------------------------------------------------
(* The user-data accessors used directly, as a caller of the public functions
   set_window_userdata and get_window_userdata would. *)

Slot(h) == IF ValidHwnd(World, h) THEN wins[h].userdata ELSE 0

UDSet ==
    /\ Running
    /\ \E h \in Alive \cup {BadHwnd} : \E p \in 0..MaxPtr : \E r \in {set_window_userdata(World, h, p)} :
         /\ Store(r.w)
         /\ ud' = [op |-> "set", hwnd |-> h, arg |-> p, valid |-> ValidHwnd(World, h), prev |-> Slot(h), stale |-> lastError, res |-> r.ret,
                   lastSet |-> IF r.ret.ok THEN [ud.lastSet EXCEPT ![h] = p] ELSE ud.lastSet]
    /\ UNCHANGED <<newCalls, lastNew, envLeft, wstr>>

UDGet ==
    /\ Running
    /\ \E h \in Alive \cup {BadHwnd} : \E r \in {get_window_userdata(World, h)} :
         /\ Store(r.w)
         /\ ud' = [ud EXCEPT !.op = "get", !.hwnd = h, !.arg = 0, !.valid = ValidHwnd(World, h), !.prev = Slot(h), !.stale = lastError, !.res = r.ret]
    /\ UNCHANGED <<newCalls, lastNew, envLeft, wstr>>

NextUD == New \/ UDSet \/ UDGet

SpecUD == Init /\ [][NextUD]_vars

-----------------------------------------------------------------------------
(* str_to_wstr used directly, on texts of at most MaxLen characters.  A Rust str
   holds Unicode scalar values; U+0000 is one of them. *)

Chars == {0, 72, 233, 65535, 65536, 128512}

RECURSIVE TextsOfLen(_)
TextsOfLen(n) == IF n = 0 THEN {<<>>} ELSE {Append(t, c) : t \in TextsOfLen(n - 1), c \in Chars}

Texts == UNION {TextsOfLen(n) : n \in 0..MaxLen}

StrToWstr ==
    /\ \E s \in Texts : wstr' = [s |-> s, out |-> str_to_wstr(s), done |-> TRUE]
    /\ UNCHANGED <<pc, exitStatus, classReg, lastError, heap, frees, wins, queue, quitFlag, quitCode, titleBuf, cs, calls, newCalls, lastNew, envLeft, ud>>

NextStr == StrToWstr

SpecStr == Init /\ [][NextStr]_vars

-----------------------------------------------------------------------------
(* Reading the record of the last action *)

Idx(op) == {i \in 1..Len(calls) : calls[i][1] = op}
Has(op, a, b) == \E i \in 1..Len(calls) : calls[i] = <<op, a, b>>
Entered(m) == {i \in Idx("window_procedure") : calls[i][3] = m}
Returned(m) == {i \in Idx("return") : calls[i][2] = m}

(* Position i lies inside a handling of message m that has not returned yet. *)
Inside(m, i) == \E j \in Entered(m) : j < i /\ ~\E k \in Returned(m) : j < k /\ k < i

-----------------------------------------------------------------------------
(* C1: init_instance allocates the payload once per window creation; the payload
   is reclaimed only while a destroy notification is handled, never before the
   pre-creation handler stored its address in the user-data slot, and never twice
   for the same window. *)
C1_PayloadReclaimedOnce ==
    /\ Cardinality(Idx("Box::new")) = Cardinality(Idx("CreateWindowExW"))
    /\ \A i \in Idx("free") : Inside(WM_DESTROY, i) /\ \E h \in Hwnds : wins[h].userdata = calls[i][2]
    /\ \A p \in Ptrs : frees[p] <= 1

(* What does hold of the reclaim: it happens only in a destroy handling and only
   for an address the pre-creation handler attached. *)
C1_ReclaimOnlyInDestroy ==
    /\ Cardinality(Idx("Box::new")) = Cardinality(Idx("CreateWindowExW"))
    /\ \A i \in Idx("free") : Inside(WM_DESTROY, i) /\ \E h \in Hwnds : wins[h].userdata = calls[i][2]

-----------------------------------------------------------------------------
(* C2: when window_loop retrieves a quit message, the process exits with the low
   32 bits of the message's wParam read as a signed integer (0 gives 0, 42 gives
   42), and the quit message is neither translated nor dispatched. *)
RetrievedWParam == IF queue # <<>> THEN Head(queue).wParam ELSE quitCode

QuitRetrieved == pc = "loop" /\ calls' # <<>> /\ calls'[1][1] = "GetMessageW" /\ calls'[1][3] = WM_QUIT

C2_QuitExitsWithCode ==
    [][QuitRetrieved =>
         /\ pc' = "exited"
         /\ exitStatus'.set
         /\ exitStatus'.code \in ((0 - Limb \div 2) * Limb)..((Limb \div 2 - 1) * Limb + (Limb - 1))
         /\ exitStatus'.code % Limb = RetrievedWParam[1]
         /\ (exitStatus'.code \div Limb) % Limb = RetrievedWParam[2]
         /\ (RetrievedWParam = IntToWParam(42) => exitStatus'.code = 42)
         /\ (RetrievedWParam = IntToWParam(0) => exitStatus'.code = 0)
         /\ \A i \in 1..Len(calls') : calls'[i][1] \notin {"TranslateMessage", "DispatchMessageW", "window_procedure"}]_vars

C2_Witness == pc = "exited" /\ exitStatus.set /\ exitStatus.code = 42 /\ Has("GetMessageW", NullHwnd, WM_QUIT)

-----------------------------------------------------------------------------
(* C3: every handling of a destroy notification posts a quit request with exit
   code 0 and then returns 0. *)
C3_DestroyAlwaysPostsQuit ==
    \A i \in Entered(WM_DESTROY) : \E q \in Idx("PostQuitMessage") : \E r \in Returned(WM_DESTROY) :
        i < q /\ q < r /\ calls[q] = <<"PostQuitMessage", 0, 0>> /\ calls[r] = <<"return", WM_DESTROY, 0>>

-----------------------------------------------------------------------------
(* C4: in do_some_painting a successful begin_paint is followed by the closure and
   then by exactly one end_paint, whatever the closure returns; after a failed
   begin_paint neither the closure nor end_paint runs; no paint context stays open. *)
BeginOk == {i \in Idx("BeginPaint") : calls[i][3] = 1}
BeginFailed == {i \in Idx("BeginPaint") : calls[i][3] = 0}
NextBegin(i) == {j \in Idx("BeginPaint") : j > i}
UntilNextBegin(i, op) == {j \in Idx(op) : j > i /\ \A b \in NextBegin(i) : j < b}

C4_PaintPaired ==
    /\ \A i \in BeginOk : /\ Cardinality(UntilNextBegin(i, "EndPaint")) = 1
                          /\ Cardinality(UntilNextBegin(i, "closure")) = 1
                          /\ \A c \in UntilNextBegin(i, "closure") : \A e \in UntilNextBegin(i, "EndPaint") : c < e /\ calls[e][2] = calls[i][2]
    /\ \A i \in BeginFailed : UntilNextBegin(i, "EndPaint") = {} /\ UntilNextBegin(i, "closure") = {}
    /\ \A i \in Idx("EndPaint") \cup Idx("closure") : \E b \in BeginOk : b < i
    /\ \A h \in Hwnds : wins[h].dc = 0

C4_Witness == BeginOk # {} /\ Has("do_some_painting", 0, ERROR_INVALID_PARAMETER) /\ Idx("EndPaint") # {}

-----------------------------------------------------------------------------
(* C5: a paint request handled by window_procedure always returns 0, whether
   begin_paint or the fill fails or not, and the process goes on: the message loop
   stays in the loop. *)
C5_PaintNeverFails ==
    /\ \A i \in Entered(WM_PAINT) : \E r \in Returned(WM_PAINT) : i < r /\ calls[r] = <<"return", WM_PAINT, 0>>
    /\ Entered(WM_PAINT) # {} => ~Dead(World)
    /\ Has("DispatchMessageW", 1, WM_PAINT) => pc = "loop"

C5_Witness == Has("DispatchMessageW", 1, WM_PAINT) /\ Has("FillRect", COLOR_WINDOW + 1, 0) /\ Has("return", WM_PAINT, 0) /\ pc = "loop"

-----------------------------------------------------------------------------
(* C6: set_window_userdata and get_window_userdata clear the last error before
   the system call and classify its outcome whatever error an earlier call left
   behind: a failed call gives Err(its code), a zero value gives Ok(null), a
   nonzero value gives Ok(that value). *)
C6_UserdataClassified ==
    ud.op \in {"set", "get"} =>
        /\ Len(calls) = 2
        /\ calls[1] = <<"SetLastError", 0, 0>>
        /\ calls[2][1] = (IF ud.op = "set" THEN "SetWindowLongPtrW" ELSE "GetWindowLongPtrW")
        /\ (~ud.valid => ud.res = Err(ERROR_INVALID_WINDOW_HANDLE))
        /\ (ud.valid /\ ud.prev = 0 => ud.res = Ok(NullPtr))
        /\ (ud.valid /\ ud.prev # 0 => ud.res = Ok(ud.prev))

C6_Witness == ud.op = "get" /\ ud.stale # 0 /\ ud.valid /\ ud.prev = 0 /\ ud.res = Ok(NullPtr)

-----------------------------------------------------------------------------
(* C7: a get_window_userdata that follows a successful set_window_userdata of p on
   the same handle, with no other set on it in between, returns Ok(p); for p = 0
   this is Ok(null), which is not an Err. *)
C7_UserdataRoundTrip ==
    (ud.op = "get" /\ ud.lastSet[ud.hwnd] # -1) => (ud.res.ok /\ ud.res.v = ud.lastSet[ud.hwnd])

C7_Witness == ud.op = "get" /\ ud.lastSet[ud.hwnd] \in Ptrs /\ ud.res = Ok(ud.lastSet[ud.hwnd]) /\ ud.stale # 0

-----------------------------------------------------------------------------
(* C8: a call of new made when the class "window" is already registered does not
   succeed, allocates no payload and creates no window; the registration it
   attempts fails, and new returns that failure with the system's error code. *)
AfterNew == calls # <<>> /\ calls[1] = <<"new", 0, 0>>

C8_SecondRegistrationFails ==
    (AfterNew /\ lastNew.classRegBefore) =>
        /\ lastNew.res # "Ok"
        /\ Idx("Box::new") = {} /\ Idx("CreateWindowExW") = {} /\ Idx("window_procedure") = {}
        /\ Cardinality({p \in Ptrs : heap[p] # "unalloc"}) <= 1
        /\ Cardinality({h \in Hwnds : wins[h].st # "none"}) <= 1
        /\ (Idx("RegisterClassW") # {} => lastNew.res = "Err" /\ lastNew.code = ERROR_CLASS_ALREADY_EXISTS /\ pc = "main")

C8_Witness == AfterNew /\ newCalls = 2 /\ lastNew.classRegBefore /\ wins[1].st = "alive" /\ lastNew.res = "Err" /\ lastNew.code = ERROR_CLASS_ALREADY_EXISTS

-----------------------------------------------------------------------------
(* C9: in new, the payload is allocated, the window created and window_procedure
   invoked only after RegisterClassW succeeded in that call; when the registration
   fails, new returns the error with the system's code and does none of these. *)
C9_RegisteredBeforeCreated ==
    /\ AfterNew =>
        /\ \A i \in Idx("Box::new") \cup Idx("CreateWindowExW") \cup Idx("window_procedure") : \E j \in 1..(i - 1) : calls[j] = <<"RegisterClassW", 1, 0>>
        /\ Has("RegisterClassW", 0, 0) =>
              /\ lastNew.res = "Err" /\ lastNew.code = lastError /\ lastNew.code # 0 /\ pc = "main"
              /\ Idx("Box::new") = {} /\ Idx("CreateWindowExW") = {} /\ Idx("window_procedure") = {}
    /\ (\E h \in Hwnds : wins[h].st # "none") => classReg

C9_Witness == AfterNew /\ Has("RegisterClassW", 0, 0) /\ ~lastNew.classRegBefore /\ lastNew.res = "Err" /\ lastNew.code = ERROR_NOT_ENOUGH_MEMORY /\ heap = [p \in Ptrs |-> "unalloc"]

-----------------------------------------------------------------------------
(* C10: when loading the arrow cursor fails, new returns an error, the process is
   not aborted, and the class is not registered. *)
C10_CursorFailurePropagates ==
    (AfterNew /\ Has("LoadCursorW", 0, 0)) => (lastNew.res = "Err" /\ pc = "main" /\ Idx("RegisterClassW") = {})

-----------------------------------------------------------------------------
(* C11: at every point where the system reads the window title through the pointer
   taken in new (in CreateWindowExW and in the SetWindowTextW of the pre-creation
   handler), the buffer made by str_to_wstr has not been released. *)
C11_TitleBufferAlive ==
    \A i \in Idx("readTitle") : calls[i][3] = 1

-----------------------------------------------------------------------------
(* C12: for every text, str_to_wstr gives 16-bit units that end with one zero
   unit and hold no zero unit elsewhere, and decoding the units before the
   terminator gives the text back. *)
RECURSIVE decode_utf16(_)
decode_utf16(u) ==
    IF u = <<>> THEN <<>>
    ELSE IF Len(u) >= 2 /\ u[1] \in 55296..56319 /\ u[2] \in 56320..57343
         THEN <<65536 + (u[1] - 55296) * 1024 + (u[2] - 56320)>> \o decode_utf16(Tail(Tail(u)))
         ELSE <<u[1]>> \o decode_utf16(Tail(u))

C12_StrToWstrTerminated ==
    wstr.done =>
        /\ Len(wstr.out) >= 1
        /\ \A i \in 1..Len(wstr.out) : wstr.out[i] \in 0..65535
        /\ wstr.out[Len(wstr.out)] = 0
        /\ \A i \in 1..(Len(wstr.out) - 1) : wstr.out[i] # 0
        /\ decode_utf16(SubSeq(wstr.out, 1, Len(wstr.out) - 1)) = wstr.s

(* What does hold of str_to_wstr: the last unit is zero, the units before it decode
   to the text, and a zero unit stands before the last one exactly where the text
   holds U+0000. *)
C12_StrToWstrRoundTrip ==
    wstr.done =>
        /\ Len(wstr.out) >= 1
        /\ \A i \in 1..Len(wstr.out) : wstr.out[i] \in 0..65535
        /\ wstr.out[Len(wstr.out)] = 0
        /\ decode_utf16(SubSeq(wstr.out, 1, Len(wstr.out) - 1)) = wstr.s
        /\ ((\E i \in 1..(Len(wstr.out) - 1) : wstr.out[i] = 0) <=> (\E i \in 1..Len(wstr.s) : wstr.s[i] = 0))

-----------------------------------------------------------------------------
(* C13: the window is requested with the width given to new, or CW_USEDEFAULT when
   it is None, and with the height given to new, or 0 when it is None; width 800
   with no height requests 800 by 0. *)
C13_RequestedSize ==
    AfterNew =>
        /\ \A i \in Idx("CreateWindowExW") :
              /\ calls[i][2] = (IF lastNew.width.some THEN lastNew.width.v ELSE CW_USEDEFAULT)
              /\ calls[i][3] = (IF lastNew.height.some THEN lastNew.height.v ELSE 0)
              /\ (lastNew.width = Some(800) /\ lastNew.height = None => calls[i] = <<"CreateWindowExW", 800, 0>>)
        /\ \A h \in Hwnds : (Idx("CreateWindowExW") # {} /\ wins[h].st # "none") =>
              /\ wins[h].width = (IF lastNew.width.some THEN lastNew.width.v ELSE CW_USEDEFAULT)
              /\ wins[h].height = (IF lastNew.height.some THEN lastNew.height.v ELSE 0)
        /\ lastNew.res = "Ok" => Cardinality(Idx("CreateWindowExW")) = 1

C13_Witness == AfterNew /\ lastNew.res = "Ok" /\ lastNew.width = Some(800) /\ lastNew.height = None /\ Has("CreateWindowExW", 800, 0) /\ wins[1].height = 0

-----------------------------------------------------------------------------
(* C14: once window_loop has dispatched a close request for a window, the process
   exits with status 0 in the end. *)
CloseDispatched == \E h \in Hwnds : Has("DispatchMessageW", h, WM_CLOSE)

ExitedWithZero == pc = "exited" /\ exitStatus.set /\ exitStatus.code = 0

C14_CloseLeadsToExit == CloseDispatched ~> ExitedWithZero

(* What does hold after a dispatched close request: the process exits with status 0
   unless the reclaim of an already reclaimed payload stopped it. *)
C14_CloseLeadsToExitOrCrash == CloseDispatched ~> (ExitedWithZero \/ pc = "crashed")

(* No handler but the destroy handler posts a quit request. *)
C14_QuitOnlyFromDestroy == \A q \in Idx("PostQuitMessage") : Inside(WM_DESTROY, q)

-----------------------------------------------------------------------------
(* C15: the payload is allocated before the window is created and its address is
   stored in the slot by the pre-creation handler; a destroy notification handled
   for such a window reclaims exactly that address, inside the handling and before
   the quit request is posted. *)
C15_PayloadLifecycle ==
    /\ (AfterNew /\ lastNew.res = "Ok") =>
          \E b \in Idx("Box::new") : \E c \in Idx("CreateWindowExW") : \E a \in Idx("SetWindowLongPtrW") :
              /\ b < c /\ c < a /\ Inside(WM_NCCREATE, a)
              /\ calls[a][3] = calls[b][2] /\ calls[a][3] = cs.lpCreateParams
              /\ calls[a][2] \in Hwnds /\ wins[calls[a][2]].userdata = calls[b][2]
    /\ \A i \in Entered(WM_DESTROY) : calls[i][2] \in Hwnds =>
          \E f \in Idx("free") :
              /\ i < f /\ Inside(WM_DESTROY, f)
              /\ calls[f][2] = cs.lpCreateParams /\ calls[f][2] = wins[calls[i][2]].userdata
              /\ heap[calls[f][2]] = "freed"
              /\ \A q \in Idx("PostQuitMessage") : i < q => f < q

C15_Witness == \E i \in Entered(WM_DESTROY) : calls[i][2] \in Hwnds /\ Has("free", cs.lpCreateParams, 1) /\ Has("PostQuitMessage", 0, 0) /\ cs.lpCreateParams \in Ptrs

-----------------------------------------------------------------------------
(* C16: the pre-creation handler returns 1 exactly when it stored the creation
   parameter in the window's slot, and 0 otherwise; given a null creation record
   it returns 0 at once, setting no title and leaving the slot alone; a reply of 0
   during a creation makes the creation fail. *)
StoredIn(i, r) ==
    \E a \in Idx("SetWindowLongPtrW") :
        /\ i < a /\ a < r
        /\ calls[a][2] = calls[i][2] /\ calls[a][2] \in Hwnds
        /\ calls[a][3] = cs.lpCreateParams
        /\ wins[calls[a][2]].userdata = calls[a][3]

-----------------------------------------------------------------------------
(* C17: a turn of window_loop retrieves one message, the oldest posted one first;
   a message that is not a quit message is translated and then dispatched, once
   each and whatever the translation answered, and the callbacks it causes have
   returned when the turn ends; a failed retrieval panics at once and nothing is
   retrieved afterwards. *)
TurnShape ==
    Idx("GetMessageW") # {} =>
        /\ Idx("GetMessageW") = {1}
        /\ calls[1][3] = 0 => (calls = <<calls[1], <<"panic", 171, 0>>>> /\ pc = "panicked")
        /\ calls[1][3] \notin {0, WM_QUIT} =>
              /\ Len(calls) >= 3
              /\ calls[2] = <<"TranslateMessage", calls[1][2], calls[1][3]>>
              /\ calls[3] = <<"DispatchMessageW", calls[1][2], calls[1][3]>>
              /\ Idx("TranslateMessage") = {2} /\ Idx("DispatchMessageW") = {3}
              /\ \A i \in Idx("window_procedure") : i > 3
              /\ (calls[1][2] \in Hwnds) => (Len(calls) >= 4 /\ calls[4] = <<"window_procedure", calls[1][2], calls[1][3]>>)
              /\ ~Dead(World) => (pc = "loop" /\ Cardinality(Idx("window_procedure")) = Cardinality(Idx("return")))

TurnOrder ==
    (pc = "loop" /\ calls' # <<>> /\ calls'[1][1] = "GetMessageW" /\ calls'[1][3] # 0 /\ queue # <<>>) =>
        calls'[1] = <<"GetMessageW", Head(queue).hwnd, Head(queue).message>>

NoRetry == pc = "panicked" => UNCHANGED vars

-----------------------------------------------------------------------------
(* C18: in init_instance the show request follows a successful creation and the
   redraw request follows the show request; a failed creation panics before any
   show request, and a nonzero answer to the show request panics before any
   redraw request. *)
C18_ShowThenUpdate ==
    AfterNew =>
        /\ \A sh \in Idx("ShowWindow") :
              /\ \E c \in Idx("CreateWindowExW") : \E r \in Returned(WM_NCCREATE) : c < r /\ r < sh /\ calls[r][3] = 1
              /\ calls[sh][2] \in Hwnds /\ wins[calls[sh][2]].st # "none"
        /\ \A u \in Idx("UpdateWindow") : \E sh \in Idx("ShowWindow") : sh < u /\ calls[sh][2] = calls[u][2]
        /\ lastNew.res = "Ok" => (Cardinality(Idx("ShowWindow")) = 1 /\ Cardinality(Idx("UpdateWindow")) = 1)
        /\ (Idx("CreateWindowExW") # {} /\ Alive = {}) => (pc = "panicked" /\ Idx("ShowWindow") = {} /\ Idx("UpdateWindow") = {})
        /\ Has("panic", 96, 0) => (Idx("ShowWindow") = {} /\ Idx("UpdateWindow") = {} /\ Alive = {})
        /\ Has("panic", 103, 0) => Idx("UpdateWindow") = {}

C18_Witness == AfterNew /\ lastNew.res = "Ok" /\ (\E sh \in Idx("ShowWindow") : \E u \in Idx("UpdateWindow") : sh < u /\ calls[sh][2] = 1 /\ calls[u][2] = 1) /\ wins[1].visible

-----------------------------------------------------------------------------
(* C19: only the pre-creation handler writes the user-data slot: the close,
   destroy, paint and default arms leave it as it was, so the slot still holds the
   payload's address after the destroy handler released it; for a message with no
   arm of its own the callback returns what DefWindowProcW returned, releases
   nothing and posts no quit request. *)
OwnArm == {WM_NCCREATE, WM_CLOSE, WM_DESTROY, WM_PAINT}

DefaultEntered == {i \in Idx("window_procedure") : calls[i][3] \notin OwnArm}

SlotFrame ==
    /\ \A a \in Idx("SetWindowLongPtrW") : Inside(WM_NCCREATE, a)
    /\ \A f \in Idx("free") : \E i \in Entered(WM_DESTROY) : i < f /\ calls[i][2] \in Hwnds /\ wins[calls[i][2]].userdata = calls[f][2]
    /\ \A i \in DefaultEntered :
          /\ Len(calls) = i + 2
          /\ calls[i + 1] = <<"DefWindowProcW", calls[i][2], calls[i][3]>>
          /\ calls[i + 2] = <<"return", calls[i][3], IF calls[i][3] = WM_NCHITTEST /\ calls[i][2] \in Alive THEN HTCLIENT ELSE 0>>
          /\ Idx("free") = {} /\ Idx("PostQuitMessage") = {}

SlotStep ==
    /\ \A h \in Hwnds : wins'[h].userdata # wins[h].userdata => (Entered(WM_NCCREATE) # {})'
    /\ (DefaultEntered # {})' => (wins' = wins /\ heap' = heap /\ frees' = frees /\ quitFlag' = quitFlag /\ quitCode' = quitCode)

C19_SlotWrittenOnlyAtCreation == [](SlotFrame) /\ [][SlotStep]_vars

C19_Witness == calls = <<<<"window_procedure", 1, WM_NCHITTEST>>, <<"DefWindowProcW", 1, WM_NCHITTEST>>, <<"return", WM_NCHITTEST, HTCLIENT>>>> /\ wins[1].userdata \in Ptrs /\ heap[wins[1].userdata] = "live"

====
